---- MODULE Spec2Model ----
(***************************************************************************)
(* Verification model of the AI-Driven Network Forecaster repository:      *)
(*   - the relational schema (network_metrics, predictions) and the query  *)
(*     contract of the Metrics Store;                                      *)
(*   - the Dashboard component, its ApiService and the useWebSocket hook.  *)
(* Three specifications share the module: SpecMetrics (samples table),     *)
(* SpecPredictions (predictions table) and SpecDash (the client).          *)
(***************************************************************************)
EXTENDS Integers, Sequences, FiniteSets, Bags, TLC

VARIABLES
    network_metrics,         \* rows of table network_metrics
    network_metrics_id_seq,  \* last value handed out by the SERIAL sequence of network_metrics.id
    insert_result,           \* the last insert_sample call: None, or Some of its sample and status
    attempted,               \* history: every sample handed to insert_sample
    accepted,                \* history: every sample whose insert_sample succeeded
    predictions_table,       \* rows of table predictions
    predictions_id_seq,      \* last value handed out by the SERIAL sequence of predictions.id
    now,                     \* the database clock NOW(), in whole hours
    inserted_predictions,    \* history: the row of every insert_prediction call
    devices,                 \* Dashboard state: DeviceStatus[]
    selectedDevice,          \* Dashboard state: None (null) or Some(device_id)
    metrics,                 \* Dashboard state: NetworkMetric[]
    predictions,             \* Dashboard state: Prediction[]
    loading,                 \* Dashboard state: boolean
    isConnected,             \* useWebSocket state: boolean
    latestData,              \* useWebSocket state: the last parsed message, as rendered
    pendingData,             \* the setLatestData update not yet rendered: None or Some(data)
    effectPending,           \* the effect of the last latestData commit has not run yet
    rendered,                \* what the last render showed and its handlers closed over
    ws,                      \* the WebSocket: "connecting", "open" or "closed"
    inflight,                \* bag of the requests awaiting their response
    metricsFrom,             \* history: device_id of the fetch whose result `metrics` holds
    last,                    \* history: what the last Dashboard step did
    networkData,             \* App state: NetworkMetrics[]
    forecastData,            \* App state: None (null) or Some(ForecastData)
    appLoading,              \* App state `loading`: boolean
    forecastTimers,          \* the setTimeout callbacks of generateForecast not yet run
    clock,                   \* Date.now(), in periods of the metrics interval
    chartProps,              \* MetricChart: None, or Some of the props {metrics, predictions}
    chart                    \* MetricChart: None, or Some of the chartData it built

storeVars == <<network_metrics, network_metrics_id_seq, insert_result, attempted, accepted>>
predVars == <<predictions_table, predictions_id_seq, now, inserted_predictions>>
dashVars == <<devices, selectedDevice, metrics, predictions, loading, isConnected,
              latestData, pendingData, effectPending, rendered, ws, inflight, metricsFrom, last>>
appVars == <<networkData, forecastData, appLoading, forecastTimers, clock>>
chartVars == <<chartProps, chart>>
vars == <<storeVars, predVars, dashVars, appVars, chartVars>>

(***************************************************************************)
(* Bounds and input domains.                                               *)
(***************************************************************************)
\* Number of insert_sample attempts explored (each attempt consumes one id).
MaxInserts == 3

\* Number of insert_prediction calls explored.
MaxPredictions == 2
\* Hours the clock advances.
MaxNow == 2

\* An optional (nullable) attribute is an empty or a one-element sequence.
None == <<>>
Some(v) == <<v>>

Devices == {"router-001", "switch-002"}
MetricNames == {"bandwidth", "latency"}
\* Instants: 0 is 00:00, 1 is 00:01.
Timestamps == {0, 1}
\* value DECIMAL(15,2): the samples below carry 80 and 85, which the column
\* holds exactly.

\* unit VARCHAR(20) is nullable: bandwidth carries a unit, latency leaves it NULL.
UnitOf(metric_name) == IF metric_name = "bandwidth" THEN Some("Mbps") ELSE None

\* The MetricSample values handed to insert_sample: every triple with the
\* first value, and a second value for the bandwidth of router-001, so that
\* a colliding write can carry a different value.
SampleInputs ==
    { [timestamp |-> t, device_id |-> d, metric_name |-> m, value |-> 80, unit |-> UnitOf(m)] :
        t \in Timestamps, d \in Devices, m \in MetricNames }
    \cup
    { [timestamp |-> t, device_id |-> "router-001", metric_name |-> "bandwidth",
       value |-> 85, unit |-> UnitOf("bandwidth")] : t \in Timestamps }

(***************************************************************************)
(* Table network_metrics and insert_sample.                                *)
(***************************************************************************)
Triple(s) == <<s.timestamp, s.device_id, s.metric_name>>

\* A table without the constraint.
UniqueViolationNever(rows, s) == FALSE
\* A narrower key, UNIQUE(timestamp, device_id).
UniqueViolationTimeDevice(rows, s) ==
    \E r \in rows : r.timestamp = s.timestamp /\ r.device_id = s.device_id
\* UNIQUE(timestamp, device_id, metric_name): would sample s collide with a stored row?
UniqueViolation(rows, s) == \E r \in rows : Triple(r) = Triple(s)

\* The row a sample becomes: the sample's columns plus the SERIAL id.
MetricRow(id, s) ==
    [id |-> id, timestamp |-> s.timestamp, device_id |-> s.device_id,
     metric_name |-> s.metric_name, value |-> s.value, unit |-> s.unit]

\* The sample a row holds (the row without its surrogate key).
RowSample(r) ==
    [timestamp |-> r.timestamp, device_id |-> r.device_id,
     metric_name |-> r.metric_name, value |-> r.value, unit |-> r.unit]

\* A variant that overwrites the stored value on a collision (an upsert).
InsertSampleUpsert(s) ==
    /\ network_metrics_id_seq < MaxInserts
    /\ network_metrics_id_seq' = network_metrics_id_seq + 1
    /\ network_metrics' =
         {r \in network_metrics : Triple(r) # Triple(s)}
             \cup {MetricRow(network_metrics_id_seq + 1, s)}
    /\ insert_result' = Some([sample |-> s, status |-> "ok"])
    /\ attempted' = attempted \cup {s}
    /\ accepted' = accepted \cup {s}
    /\ UNCHANGED <<predVars, dashVars, appVars, chartVars>>

\* insert_sample(sample): INSERT INTO network_metrics.  The id default
\* (nextval) is evaluated before the unique index is checked, so a rejected
\* insert still consumes an id; the rows stay as they were.
InsertSample(s) ==
    /\ network_metrics_id_seq < MaxInserts
    /\ network_metrics_id_seq' = network_metrics_id_seq + 1
    /\ IF UniqueViolation(network_metrics, s)
         THEN /\ network_metrics' = network_metrics
              /\ insert_result' = Some([sample |-> s, status |-> "ConflictError"])
              /\ accepted' = accepted
         ELSE /\ network_metrics' = network_metrics \cup {MetricRow(network_metrics_id_seq + 1, s)}
              /\ insert_result' = Some([sample |-> s, status |-> "ok"])
              /\ accepted' = accepted \cup {s}
    /\ attempted' = attempted \cup {s}
    /\ UNCHANGED <<predVars, dashVars, appVars, chartVars>>

(***************************************************************************)
(* query_samples and list_devices (the store's read contract).             *)
(***************************************************************************)
\* query_samples arguments: every filter is optional.
Queries ==
    [device_id : {None} \cup {Some(d) : d \in Devices},
     metric_name : {None} \cup {Some(m) : m \in MetricNames},
     start_time : {None} \cup {Some(t) : t \in Timestamps},
     end_time : {None} \cup {Some(t) : t \in Timestamps},
     limit : {None} \cup {Some(n) : n \in {0, 1, 2}}]

\* WHERE clause: the conjunction of the filters that are given.
Where(rows, q) ==
    {r \in rows :
        /\ (q.device_id # None => r.device_id = q.device_id[1])
        /\ (q.metric_name # None => r.metric_name = q.metric_name[1])
        /\ (q.start_time # None => r.timestamp >= q.start_time[1])
        /\ (q.end_time # None => r.timestamp <= q.end_time[1])}

\* ORDER BY timestamp, ascending: a variant with the order reversed.
RECURSIVE OrderingsAsc(_)
OrderingsAsc(rows) ==
    IF rows = {} THEN {<<>>}
    ELSE UNION { { <<r>> \o rest : rest \in OrderingsAsc(rows \ {r}) } :
                   r \in {x \in rows : \A y \in rows : x.timestamp <= y.timestamp} }

\* ORDER BY timestamp DESC: every order of the rows in which timestamps never
\* increase (rows with equal timestamps may come in either order).
RECURSIVE OrderingsDesc(_)
OrderingsDesc(rows) ==
    IF rows = {} THEN {<<>>}
    ELSE UNION { { <<r>> \o rest : rest \in OrderingsDesc(rows \ {r}) } :
                   r \in {x \in rows : \A y \in rows : x.timestamp >= y.timestamp} }

\* LIMIT n: the first n rows; no limit keeps them all.
LimitRows(seq, limit) ==
    IF limit = None \/ Len(seq) <= limit[1] THEN seq ELSE SubSeq(seq, 1, limit[1])

\* A variant returning the oldest rows first.
QuerySamplesAsc(q) ==
    { LimitRows(o, q.limit) : o \in OrderingsAsc(Where(network_metrics, q)) }

\* query_samples(device_id?, metric_name?, start_time?, end_time?, limit?):
\* the sequences of rows a call may return in the current state.
QuerySamples(q) ==
    { LimitRows(o, q.limit) : o \in OrderingsDesc(Where(network_metrics, q)) }

\* GROUP BY device_id with COUNT(*) and MAX(timestamp), one row at a time.
RECURSIVE GroupByDevice(_, _)
GroupByDevice(rows, acc) ==
    IF rows = {} THEN acc
    ELSE LET r == CHOOSE x \in rows : TRUE
             old == {e \in acc : e.device_id = r.device_id}
             new == IF old = {}
                      THEN [device_id |-> r.device_id, last_seen |-> r.timestamp,
                            metrics_count |-> 1]
                      ELSE LET e == CHOOSE x \in old : TRUE
                           IN [device_id |-> r.device_id,
                               last_seen |-> IF r.timestamp > e.last_seen
                                             THEN r.timestamp ELSE e.last_seen,
                               metrics_count |-> e.metrics_count + 1]
         IN GroupByDevice(rows \ {r}, (acc \ old) \cup {new})

\* list_devices(): the part of DeviceStatus derived from the samples.
ListDevices == GroupByDevice(network_metrics, {})

(***************************************************************************)
(* Table predictions, insert_prediction and query_predictions.             *)
(***************************************************************************)
\* Instants that are forecast, in hours.
PredictedTimestamps == {1, 2, 3}

PredictionOf(d, m, t, lower, upper) ==
    [device_id |-> d, metric_name |-> m, predicted_timestamp |-> t, predicted_value |-> 90,
     confidence_interval_lower |-> lower, confidence_interval_upper |-> upper,
     model_version |-> Some("v1")]

\* The Prediction values handed to insert_prediction: every series and
\* forecast instant without confidence bounds (both columns are nullable),
\* and the bandwidth of router-001 also with bounds, in either order: the
\* table declares no CHECK on them.
PredictionInputs ==
    { PredictionOf(d, m, t, None, None) :
        d \in Devices, m \in MetricNames, t \in PredictedTimestamps }
    \cup
    { PredictionOf("router-001", "bandwidth", t, Some(b[1]), Some(b[2])) :
        t \in PredictedTimestamps, b \in {<<85, 95>>, <<95, 85>>} }

\* The row a prediction becomes: SERIAL id, created_at DEFAULT NOW().
PredictionRow(id, created_at, p) ==
    [id |-> id, created_at |-> created_at, device_id |-> p.device_id,
     metric_name |-> p.metric_name, predicted_timestamp |-> p.predicted_timestamp,
     predicted_value |-> p.predicted_value,
     confidence_interval_lower |-> p.confidence_interval_lower,
     confidence_interval_upper |-> p.confidence_interval_upper,
     model_version |-> p.model_version]

\* A variant that replaces the older predictions of the same series and instant.
InsertPredictionReplacing(p) ==
    /\ predictions_id_seq < MaxPredictions
    /\ predictions_id_seq' = predictions_id_seq + 1
    /\ predictions_table' =
         {r \in predictions_table :
             ~ /\ r.device_id = p.device_id
               /\ r.metric_name = p.metric_name
               /\ r.predicted_timestamp = p.predicted_timestamp}
         \cup {PredictionRow(predictions_id_seq + 1, now, p)}
    /\ inserted_predictions' =
         inserted_predictions \cup {PredictionRow(predictions_id_seq + 1, now, p)}
    /\ now' = now
    /\ UNCHANGED <<storeVars, dashVars, appVars, chartVars>>

\* insert_prediction(prediction): INSERT INTO predictions.  The table has no
\* constraint besides the primary key, so every insert adds a row; older
\* predictions of the series stay (superseded, not deleted).
InsertPrediction(p) ==
    /\ predictions_id_seq < MaxPredictions
    /\ predictions_id_seq' = predictions_id_seq + 1
    /\ predictions_table' =
         predictions_table \cup {PredictionRow(predictions_id_seq + 1, now, p)}
    /\ inserted_predictions' =
         inserted_predictions \cup {PredictionRow(predictions_id_seq + 1, now, p)}
    /\ now' = now
    /\ UNCHANGED <<storeVars, dashVars, appVars, chartVars>>

\* An hour passes.
Tick ==
    /\ now < MaxNow
    /\ now' = now + 1
    /\ UNCHANGED <<predictions_table, predictions_id_seq, inserted_predictions>>
    /\ UNCHANGED <<storeVars, dashVars, appVars, chartVars>>

\* horizon_hours arguments; 4 is the horizon the Dashboard asks for.
Horizons == {None, Some(1), Some(2), Some(4)}

\* The horizon is the forward window of that many hours from now.
WithinHorizon(r, horizon) ==
    horizon # None =>
        /\ r.predicted_timestamp >= now
        /\ r.predicted_timestamp <= now + horizon[1]

\* ORDER BY created_at.
RECURSIVE OrderingsByCreation(_)
OrderingsByCreation(rows) ==
    IF rows = {} THEN {<<>>}
    ELSE UNION { { <<r>> \o rest : rest \in OrderingsByCreation(rows \ {r}) } :
                   r \in {x \in rows : \A y \in rows : x.created_at <= y.created_at} }

\* ORDER BY predicted_timestamp (ascending): every order of the rows in which
\* predicted timestamps never decrease.
RECURSIVE OrderingsByPredicted(_)
OrderingsByPredicted(rows) ==
    IF rows = {} THEN {<<>>}
    ELSE UNION { { <<r>> \o rest : rest \in OrderingsByPredicted(rows \ {r}) } :
                   r \in {x \in rows : \A y \in rows :
                             x.predicted_timestamp <= y.predicted_timestamp} }

\* A variant that returns the predictions in the order they were produced.
QueryPredictionsByCreation(device_id, metric_name, horizon) ==
    OrderingsByCreation(
        {r \in predictions_table :
            /\ r.device_id = device_id
            /\ r.metric_name = metric_name
            /\ WithinHorizon(r, horizon)})

\* query_predictions(device_id, metric_name, horizon_hours?): the sequences of
\* rows a call may return in the current state.
QueryPredictions(device_id, metric_name, horizon) ==
    OrderingsByPredicted(
        {r \in predictions_table :
            /\ r.device_id = device_id
            /\ r.metric_name = metric_name
            /\ WithinHorizon(r, horizon)})

(***************************************************************************)
(* The client: ApiService (services/api.ts).                               *)
(***************************************************************************)
\* Number of requests that may await their response at once.
MaxInflight == 2

\* for (let i = 0; i < 50; i++) in generateMockMetrics.
MockSamples == 50

\* The outcomes of fetch: a 2xx response with a JSON body, or a failure (the
\* fetch rejects, or the status is not ok).
NetOk(body) == [ok |-> TRUE, body |-> body]
NetFail == [ok |-> FALSE, body |-> <<>>]

\* What a call yields: a value, or a thrown error; and what it logged.
Returned(val, logs) == [threw |-> FALSE, val |-> val, logs |-> logs]
Thrown(logs) == [threw |-> TRUE, val |-> <<>>, logs |-> logs]

\* ApiService.request: throws when the fetch fails or the response is not ok.
Request(net) == IF net.ok THEN Returned(net.body, <<>>) ELSE Thrown(<<>>)

DeviceStatusOf(id, type, status, ip, location) ==
    [device_id |-> id, device_type |-> type, status |-> status, ip_address |-> ip,
     location |-> location, last_seen |-> 0]

\* The three devices getDevices returns when the request fails.
MockDevices ==
    << DeviceStatusOf("router-001", "Router", "online", "192.168.1.1", "Main Office"),
       DeviceStatusOf("switch-002", "Switch", "online", "192.168.1.2", "Server Room"),
       DeviceStatusOf("ap-003", "Access Point", "warning", "192.168.1.3", "Floor 2") >>

\* ApiService.getDevices: catches, logs and returns the mock devices.
ApiGetDevices(net) ==
    LET r == Request(net)
    IN IF r.threw THEN Returned(MockDevices, <<"Error fetching devices:">>) ELSE r

metricTypes == <<"bandwidth", "latency", "packet_loss", "cpu_usage">>

\* The lower end of the range Math.random() draws the mock value from, and the unit.
MockValue(metricType) ==
    CASE metricType = "bandwidth" -> 50
      [] metricType = "latency" -> 10
      [] metricType = "packet_loss" -> 0
      [] metricType = "cpu_usage" -> 10
      [] OTHER -> 0
MockUnit(metricType) ==
    CASE metricType = "bandwidth" -> "Mbps"
      [] metricType = "latency" -> "ms"
      [] metricType = "packet_loss" -> "%"
      [] metricType = "cpu_usage" -> "%"
      [] OTHER -> "unit"

\* ApiService.generateMockMetrics: for each of the last 50 minutes one sample
\* per metric type, pushed newest minute first with ids 1, 2, ...; the final
\* sort by timestamp descending is stable and finds them in that order
\* already.  Timestamps are minutes relative to the call (0, -1, ...); the
\* random value is represented by the lower end of its range.
GenerateMockMetrics(deviceId) ==
    [k \in 1..(MockSamples * Len(metricTypes)) |->
        LET i == (k - 1) \div Len(metricTypes)
            metricType == metricTypes[((k - 1) % Len(metricTypes)) + 1]
        IN [id |-> k, device_id |-> deviceId, metric_name |-> metricType,
            value |-> MockValue(metricType), unit |-> MockUnit(metricType),
            timestamp |-> 0 - i]]

\* generateMockMetrics(deviceId) for each device id a query carries.
MockMetricsFor == [d \in Devices |-> GenerateMockMetrics(d)]

\* ApiService.getMetrics: catches, logs and returns mock metrics for
\* query.device_id || 'router-001'.
ApiGetMetrics(query, net) ==
    LET r == Request(net)
    IN IF r.threw
         THEN Returned(MockMetricsFor[IF query.device_id # "" THEN query.device_id
                                      ELSE "router-001"],
                       <<"Error fetching metrics:">>)
         ELSE r

\* ApiService.getPredictions: catches, logs and returns [].
ApiGetPredictions(net) ==
    LET r == Request(net)
    IN IF r.threw THEN Returned(<<>>, <<"Error fetching predictions:">>) ELSE r

\* ApiService.generatePredictions and trainModels: no catch, the error propagates.
ApiGeneratePredictions(net) == Request(net)
ApiTrainModels(net) == Request(net)

(***************************************************************************)
(* What the backend may answer (it follows the contract of the store).     *)
(***************************************************************************)
NetworkMetricOf(id, d, m, t) ==
    [id |-> id, device_id |-> d, metric_name |-> m, value |-> 80,
     unit |-> IF m = "bandwidth" THEN "Mbps" ELSE "ms", timestamp |-> t]

\* GET /api/v1/devices: no device, or the devices of the installation, which
\* are those the mock data of getDevices names.
DevicesBodies ==
    { <<>>,
      << DeviceStatusOf("router-001", "Router", "online", "192.168.1.1", "Main Office"),
         DeviceStatusOf("switch-002", "Switch", "online", "192.168.1.2", "Server Room"),
         DeviceStatusOf("ap-003", "Access Point", "warning", "192.168.1.3", "Floor 2") >> }

\* GET /api/v1/metrics?device_id=d&limit=100: newest first.
MetricsBodies(d) ==
    { <<>>, << NetworkMetricOf(2, d, "bandwidth", 1), NetworkMetricOf(1, d, "latency", 0) >> }

\* GET /api/v1/predictions/d/m?hours=4
PredictionsBodies(d, m) ==
    { <<>>,
      << [id |-> 1, device_id |-> d, metric_name |-> m, predicted_value |-> 90,
          prediction_timestamp |-> 2, confidence |-> 5] >> }

(***************************************************************************)
(* The Dashboard component and the useWebSocket hook.                      *)
(***************************************************************************)
\* A request awaiting its response, with what the awaiting function holds in
\* its locals; origin tells which event led to the call: the mount, a
\* selection, a pushed message or the Generate Predictions button.
Req(kind, deviceId, metricName, origin) ==
    [kind |-> kind, deviceId |-> deviceId, metricName |-> metricName, origin |-> origin]

Issue(bag, req) == bag (+) SetToBag({req})
Settle(bag, req) == bag (-) SetToBag({req})
Pending(req) == BagIn(req, inflight)

\* The record of a step: whether its request failed, whether an error
\* escaped the handler, the console.error lines and the alert it raised, the
\* ApiService calls it made, in order, and the device whose card was clicked.
Step(failed, uncaught, logs, alert) ==
    [failed |-> failed, uncaught |-> uncaught, logs |-> logs, alert |-> alert,
     calls |-> <<>>, selected |-> None]

\* A call of an ApiService method with its arguments.
ApiCall(fn, args) == [fn |-> fn, args |-> args]

\* The record of a step that made the given calls.
Calling(step, calls) == [step EXCEPT !.calls = calls]

\* What the action buttons and their handlers read of metrics:
\* metrics.length === 0 and metrics[0].metric_name.
ReadOfMetrics(mets) ==
    IF Len(mets) = 0 THEN <<>> ELSE <<[metric_name |-> mets[1].metric_name]>>

\* What a render shows and what its handlers close over: the device cards,
\* the selection, and as much of metrics and loading as the action buttons
\* and their handlers read.
Closure(devs, sel, mets, load) ==
    [devices |-> devs, selectedDevice |-> sel, metrics |-> ReadOfMetrics(mets),
     loading |-> load]

\* A parsed message: JSON.parse yields an array or an object.
JsonArray(items) == [isArray |-> TRUE, items |-> items]
JsonObject(item) == [isArray |-> FALSE, items |-> <<item>>]
MetricUpdate(d) ==
    [type |-> "metric_update", device_id |-> d, metric_name |-> "bandwidth",
     value |-> 80, timestamp |-> 0]

\* latestData.length > 0 (an object has no length: undefined > 0 is false).
HasLength(data) == data.isArray /\ Len(data.items) > 0

\* The state after the first render and its effects: useState initial
\* values, loadDevices() called, new WebSocket(WS_URL) connecting.
MountedDashboard ==
    /\ devices = <<>>
    /\ selectedDevice = None
    /\ metrics = <<>>
    /\ predictions = <<>>
    /\ loading = FALSE
    /\ isConnected = FALSE
    /\ latestData = JsonArray(<<>>)
    /\ pendingData = None
    /\ effectPending = FALSE
    /\ rendered = Closure(<<>>, None, <<>>, FALSE)
    /\ ws = "connecting"
    /\ inflight = SetToBag({Req("getDevices", "", "", "mount")})
    /\ metricsFrom = None
    /\ last = Step(FALSE, FALSE, <<>>, None)

\* loadDevices after `await api.getDevices()`.
LoadDevicesResume(net) ==
    LET req == Req("getDevices", "", "", "mount")
        r == ApiGetDevices(net)
    IN /\ Pending(req)
       /\ inflight' = Settle(inflight, req)
       /\ IF r.threw
            THEN /\ devices' = devices
                 /\ last' = Step(~net.ok, FALSE,
                                 r.logs \o <<"Error loading devices:">>, None)
            ELSE /\ devices' = r.val
                 /\ last' = Step(~net.ok, FALSE, r.logs, None)
       /\ UNCHANGED <<storeVars, predVars, appVars, chartVars, selectedDevice, metrics, predictions, loading,
                      isConnected, latestData, pendingData, effectPending, rendered, ws, metricsFrom>>

\* loadMetrics up to `await api.getMetrics({device_id, limit: 100})`.
LoadMetricsCall(bag, deviceId, origin) == Issue(bag, Req("getMetrics", deviceId, "", origin))

\* The arguments of the calls a pending request stands for:
\* api.getMetrics({device_id: deviceId, limit: 100}) and
\* api.getPredictions(deviceId, metricName, 4).
GetMetricsQuery(req) == [device_id |-> req.deviceId, limit |-> 100]
GetPredictionsArgs(req) == <<req.deviceId, req.metricName, 4>>

\* The calls as a step records them.
GetMetricsCalled(deviceId) ==
    ApiCall("getMetrics", <<GetMetricsQuery(Req("getMetrics", deviceId, "", ""))>>)
GetPredictionsCalled(req) == ApiCall("getPredictions", GetPredictionsArgs(req))

\* A loadMetrics that asks for predictions whatever the metrics are.
LoadMetricsResumeAlwaysPredicts(req, net) ==
    LET r == ApiGetMetrics([device_id |-> req.deviceId, limit |-> 100], net)
    IN /\ req.kind = "getMetrics"
       /\ Pending(req)
       /\ metrics' = r.val
       /\ metricsFrom' = Some(req.deviceId)
       /\ inflight' = Issue(Settle(inflight, req),
                            Req("getPredictions", req.deviceId, "bandwidth", ""))
       /\ last' = Calling(Step(~net.ok, FALSE, r.logs, None),
                          <<GetPredictionsCalled(
                                Req("getPredictions", req.deviceId, "bandwidth", ""))>>)
       /\ loading' = FALSE
       /\ UNCHANGED <<storeVars, predVars, appVars, chartVars, devices, selectedDevice, predictions,
                      isConnected, latestData, pendingData, effectPending, rendered, ws>>

\* loadMetrics after the await: setMetrics, loadPredictions for the first
\* sample's metric_name when there is one, finally setLoading(false).
LoadMetricsResume(req, net) ==
    LET r == ApiGetMetrics(GetMetricsQuery(req), net)
    IN /\ req.kind = "getMetrics"
       /\ Pending(req)
       /\ IF r.threw
            THEN /\ metrics' = metrics
                 /\ metricsFrom' = metricsFrom
                 /\ inflight' = Settle(inflight, req)
                 /\ last' = Step(~net.ok, FALSE,
                                 r.logs \o <<"Error loading metrics:">>, None)
            ELSE /\ metrics' = r.val
                 /\ metricsFrom' = Some(req.deviceId)
                 /\ IF Len(r.val) > 0
                      THEN LET next == Req("getPredictions", req.deviceId,
                                           r.val[1].metric_name, "")
                           IN /\ inflight' = Issue(Settle(inflight, req), next)
                              /\ last' = Calling(Step(~net.ok, FALSE, r.logs, None),
                                                 <<GetPredictionsCalled(next)>>)
                      ELSE /\ inflight' = Settle(inflight, req)
                           /\ last' = Step(~net.ok, FALSE, r.logs, None)
       /\ loading' = FALSE
       /\ UNCHANGED <<storeVars, predVars, appVars, chartVars, devices, selectedDevice, predictions,
                      isConnected, latestData, pendingData, effectPending, rendered, ws>>

\* loadPredictions after `await api.getPredictions(deviceId, metricName, 4)`.
LoadPredictionsResume(req, net) ==
    LET r == ApiGetPredictions(net)
    IN /\ req.kind = "getPredictions"
       /\ Pending(req)
       /\ inflight' = Settle(inflight, req)
       /\ IF r.threw
            THEN /\ predictions' = <<>>
                 /\ last' = Step(~net.ok, FALSE,
                                 r.logs \o <<"Error loading predictions:">>, None)
            ELSE /\ predictions' = r.val
                 /\ last' = Step(~net.ok, FALSE, r.logs, None)
       /\ UNCHANGED <<storeVars, predVars, appVars, chartVars, devices, selectedDevice, metrics, loading,
                      isConnected, latestData, pendingData, effectPending, rendered, ws, metricsFrom>>

\* The body of the effect on [latestData, selectedDevice], for the values
\* the render it belongs to saw: loadMetrics(selectedDevice) when
\* latestData.length > 0 and a device is selected.
EffectCalls(data, device) == HasLength(data) /\ device # None

\* handleDeviceSelect(deviceId), called by a DeviceCard of the last render:
\* setSelectedDevice, loadMetrics.  The click is rendered before it returns:
\* that render first runs an effect still left from an earlier commit, which
\* calls loadMetrics for the device selected then, and after it the effect
\* on [latestData, selectedDevice] runs when the selection changed, and
\* calls loadMetrics again when latestData.length > 0.  The render of the
\* click commits the click's updates; updates queued outside a click wait
\* for their own render.  MaxInflight bounds the requests of the click; the
\* effect left from before is not held back.
HandleDeviceSelect(deviceId) ==
    LET changed == rendered.selectedDevice # Some(deviceId)
        stale == effectPending /\ EffectCalls(latestData, rendered.selectedDevice)
        effectRuns == changed /\ EffectCalls(latestData, Some(deviceId))
        handled == LoadMetricsCall(inflight, deviceId, "select")
        flushed == IF stale THEN LoadMetricsCall(handled, rendered.selectedDevice[1], "push")
                   ELSE handled
    IN /\ \E i \in 1..Len(rendered.devices) : rendered.devices[i].device_id = deviceId
       /\ BagCardinality(inflight) + (IF effectRuns THEN 2 ELSE 1) <= MaxInflight
       /\ selectedDevice' = Some(deviceId)
       /\ loading' = TRUE
       /\ effectPending' = FALSE
       /\ rendered' = [rendered EXCEPT !.selectedDevice = Some(deviceId), !.loading = TRUE]
       /\ inflight' =
            IF effectRuns THEN LoadMetricsCall(flushed, deviceId, "select") ELSE flushed
       /\ last' = [Calling(Step(FALSE, FALSE, <<>>, None),
                           <<GetMetricsCalled(deviceId)>>
                           \o (IF stale THEN <<GetMetricsCalled(rendered.selectedDevice[1])>>
                               ELSE <<>>)
                           \o (IF effectRuns THEN <<GetMetricsCalled(deviceId)>> ELSE <<>>))
                    EXCEPT !.selected = Some(deviceId)]
       /\ UNCHANGED <<storeVars, predVars, appVars, chartVars, devices, metrics, predictions, isConnected,
                      latestData, pendingData, ws, metricsFrom>>

\* The action buttons are rendered for a selected device and carry
\* disabled={loading || metrics.length === 0}, with the values of the last
\* render.
ActionButtonsEnabled ==
    rendered.selectedDevice # None /\ ~(rendered.loading \/ Len(rendered.metrics) = 0)

\* api.generatePredictions(selectedDevice, metricName, 4)
GeneratePredictionsArgs(req) == <<req.deviceId, req.metricName, 4>>

\* The request handleGeneratePredictions sends, for the selectedDevice and
\* metrics its render closed over: none when
\* !selectedDevice || metrics.length === 0.
GeneratePredictionsRequest(closure) ==
    IF closure.selectedDevice = None \/ Len(closure.metrics) = 0 THEN None
    ELSE Some(Req("generatePredictions", closure.selectedDevice[1],
                  closure.metrics[1].metric_name, ""))

\* handleGeneratePredictions up to `await api.generatePredictions(...)`.
HandleGeneratePredictions ==
    LET req == GeneratePredictionsRequest(rendered)
    IN /\ BagCardinality(inflight) < MaxInflight
       /\ IF req = None
            THEN /\ inflight' = inflight
                 /\ last' = Step(FALSE, FALSE, <<>>, None)
            ELSE /\ inflight' = Issue(inflight, req[1])
                 /\ last' = Calling(Step(FALSE, FALSE, <<>>, None),
                                    <<ApiCall("generatePredictions",
                                              GeneratePredictionsArgs(req[1]))>>)
       /\ UNCHANGED <<storeVars, predVars, appVars, chartVars, devices, selectedDevice, metrics, predictions,
                      loading, isConnected, latestData, pendingData, effectPending, rendered, ws,
                      metricsFrom>>

\* A handler without its try/catch: the rejection escapes.
GeneratePredictionsSettledNoCatch(r, failed) ==
    IF r.threw
      THEN Step(failed, TRUE, r.logs, None)
      ELSE Step(failed, FALSE, r.logs, None)

\* The try/catch of handleGeneratePredictions around the awaited call.
GeneratePredictionsSettled(r, failed) ==
    IF r.threw
      THEN Step(failed, FALSE,
                r.logs \o <<"Error generating predictions:">>, None)
      ELSE Step(failed, FALSE, r.logs, None)

\* A handler that re-fetches the predictions whether or not the call threw.
GeneratePredictionsResumeAlwaysRefetch(req, net) ==
    LET r == ApiGeneratePredictions(net)
    IN /\ req.kind = "generatePredictions"
       /\ Pending(req)
       /\ inflight' = Issue(Settle(inflight, req),
                            Req("getPredictions", req.deviceId, req.metricName, "generate"))
       /\ last' = Calling(GeneratePredictionsSettled(r, ~net.ok), <<GetPredictionsCalled(req)>>)
       /\ UNCHANGED <<storeVars, predVars, appVars, chartVars, devices, selectedDevice, metrics, predictions,
                      loading, isConnected, latestData, pendingData, effectPending, rendered, ws, metricsFrom>>

\* handleGeneratePredictions after the await: loadPredictions for the pair
\* it captured, unless the call threw.
GeneratePredictionsResume(req, net) ==
    LET r == ApiGeneratePredictions(net)
    IN /\ req.kind = "generatePredictions"
       /\ Pending(req)
       /\ inflight' =
            IF r.threw THEN Settle(inflight, req)
            ELSE Issue(Settle(inflight, req),
                       Req("getPredictions", req.deviceId, req.metricName, "generate"))
       /\ last' =
            IF r.threw THEN GeneratePredictionsSettled(r, ~net.ok)
            ELSE Calling(GeneratePredictionsSettled(r, ~net.ok), <<GetPredictionsCalled(req)>>)
       /\ UNCHANGED <<storeVars, predVars, appVars, chartVars, devices, selectedDevice, metrics, predictions,
                      loading, isConnected, latestData, pendingData, effectPending, rendered, ws, metricsFrom>>

\* api.trainModels(selectedDevice, metricName)
TrainModelsArgs(req) == <<req.deviceId, req.metricName>>

\* The request handleTrainModels sends, for the selectedDevice and metrics
\* its render closed over: none when !selectedDevice || metrics.length === 0.
TrainModelsRequest(closure) ==
    IF closure.selectedDevice = None \/ Len(closure.metrics) = 0 THEN None
    ELSE Some(Req("trainModels", closure.selectedDevice[1],
                  closure.metrics[1].metric_name, ""))

\* handleTrainModels up to `await api.trainModels(...)`.
HandleTrainModels ==
    LET req == TrainModelsRequest(rendered)
    IN /\ BagCardinality(inflight) < MaxInflight
       /\ IF req = None
            THEN /\ inflight' = inflight
                 /\ last' = Step(FALSE, FALSE, <<>>, None)
            ELSE /\ inflight' = Issue(inflight, req[1])
                 /\ last' = Calling(Step(FALSE, FALSE, <<>>, None),
                                    <<ApiCall("trainModels", TrainModelsArgs(req[1]))>>)
       /\ UNCHANGED <<storeVars, predVars, appVars, chartVars, devices, selectedDevice, metrics, predictions,
                      loading, isConnected, latestData, pendingData, effectPending, rendered, ws,
                      metricsFrom>>

\* A handler that logs a failure without telling the user.
TrainModelsSettledSilentFailure(r, failed) ==
    IF r.threw
      THEN Step(failed, FALSE, r.logs \o <<"Error training models:">>, None)
      ELSE Step(failed, FALSE, r.logs,
                Some("Model training started successfully!"))

\* The try/catch of handleTrainModels: an alert either way.
TrainModelsSettled(r, failed) ==
    IF r.threw
      THEN Step(failed, FALSE, r.logs \o <<"Error training models:">>,
                Some("Error starting model training"))
      ELSE Step(failed, FALSE, r.logs,
                Some("Model training started successfully!"))

\* handleTrainModels after the await.
TrainModelsResume(req, net) ==
    /\ req.kind = "trainModels"
    /\ Pending(req)
    /\ inflight' = Settle(inflight, req)
    /\ last' = TrainModelsSettled(ApiTrainModels(net), ~net.ok)
    /\ UNCHANGED <<storeVars, predVars, appVars, chartVars, devices, selectedDevice, metrics, predictions,
                   loading, isConnected, latestData, pendingData, effectPending, rendered, ws, metricsFrom>>

\* An onopen that also fires on a closed socket, as a reconnecting hook's would.
WsOpenAfterClose ==
    /\ ws # "open"
    /\ ws' = "open"
    /\ isConnected' = TRUE
    /\ last' = Step(FALSE, FALSE, <<>>, None)
    /\ UNCHANGED <<storeVars, predVars, appVars, chartVars, devices, selectedDevice, metrics, predictions,
                   loading, latestData, pendingData, effectPending, rendered,
                   inflight, metricsFrom>>

\* ws.onopen
WsOpen ==
    /\ ws = "connecting"
    /\ ws' = "open"
    /\ isConnected' = TRUE
    /\ last' = Step(FALSE, FALSE, <<>>, None)
    /\ UNCHANGED <<storeVars, predVars, appVars, chartVars, devices, selectedDevice, metrics, predictions,
                   loading, latestData, pendingData, effectPending, rendered,
                   inflight, metricsFrom>>

\* ws.onerror: the error is logged; the hook's state is as it was.
OnError == Step(FALSE, FALSE, <<"WebSocket error:">>, None)

\* An error event on the socket, on its own.
WsError ==
    /\ ws # "closed"
    /\ last' = OnError
    /\ UNCHANGED <<storeVars, predVars, appVars, chartVars, devices, selectedDevice, metrics, predictions,
                   loading, isConnected, latestData, pendingData, effectPending, rendered, ws,
                   inflight, metricsFrom>>

\* ws.onclose: the channel closed normally, or (errored) the connection
\* attempt failed or the open connection broke, and the socket fired error
\* and then close in one task, so that onerror logged before onclose ran.
\* setIsConnected(false) is called inside a close event, which is rendered
\* before the task ends: an effect still left from a latestData commit is
\* run first, and with latestData.length > 0 and a device selected it
\* calls loadMetrics(selectedDevice), which queues setLoading(true) and
\* sends the request.
WsClose(errored) ==
    LET stale == effectPending /\ EffectCalls(latestData, rendered.selectedDevice)
        logged == IF errored THEN OnError ELSE Step(FALSE, FALSE, <<>>, None)
    IN /\ ws # "closed"
       /\ ws' = "closed"
       /\ isConnected' = FALSE
       /\ effectPending' = FALSE
       /\ IF stale
            THEN /\ BagCardinality(inflight) < MaxInflight
                 /\ loading' = TRUE
                 /\ inflight' = LoadMetricsCall(inflight, rendered.selectedDevice[1], "push")
                 /\ last' = Calling(logged, <<GetMetricsCalled(rendered.selectedDevice[1])>>)
            ELSE /\ loading' = loading
                 /\ inflight' = inflight
                 /\ last' = logged
       /\ UNCHANGED <<storeVars, predVars, appVars, chartVars, devices, selectedDevice, metrics, predictions,
                      latestData, pendingData, rendered, metricsFrom>>

\* The messages the server pushes: an array of updates, a single update
\* object, and text that is not JSON.
Payloads ==
    { [valid |-> TRUE, data |-> JsonArray(<<MetricUpdate("router-001")>>)],
      [valid |-> TRUE, data |-> JsonObject(MetricUpdate("router-001"))],
      [valid |-> FALSE, data |-> JsonArray(<<>>)] }

\* An onmessage whose catch calls setLatestData([]) besides logging.
WsMessageResetOnError(payload) ==
    /\ ws = "open"
    /\ pendingData' = Some(payload.data)
    /\ last' = IF payload.valid THEN Step(FALSE, FALSE, <<>>, None)
               ELSE Step(FALSE, FALSE, <<"Error parsing WebSocket message:">>, None)
    /\ UNCHANGED <<storeVars, predVars, appVars, chartVars, devices, selectedDevice, metrics,
                   predictions, loading, isConnected, latestData, effectPending, rendered, ws,
                   inflight, metricsFrom>>

\* ws.onmessage: JSON.parse and setLatestData, or the parse error is logged.
\* setLatestData only queues the update and the callback returns: the
\* rendered latestData, loading and the requests are as they were.  An
\* update queued before the previous one was rendered replaces it.
WsMessage(payload) ==
    /\ ws = "open"
    /\ IF payload.valid
         THEN /\ pendingData' = Some(payload.data)
              /\ last' = Step(FALSE, FALSE, <<>>, None)
         ELSE /\ pendingData' = pendingData
              /\ last' = Step(FALSE, FALSE,
                              <<"Error parsing WebSocket message:">>, None)
    /\ UNCHANGED <<storeVars, predVars, appVars, chartVars, devices, selectedDevice, metrics,
                   predictions, loading, isConnected, latestData, effectPending, rendered, ws,
                   inflight, metricsFrom>>

\* The state the hooks hold, as a render would show it.
Current == Closure(devices, selectedDevice, metrics, loading)

\* The render of the updates queued outside a click, in a later task: the
\* commit shows the devices, metrics and loading the hooks hold, replaces
\* latestData by a queued message and then leaves the effect on
\* [latestData, selectedDevice] (the parsed message is a new object, so the
\* dependency changed) to a task after it.  An effect still left from the
\* commit before is run first, and what it sets is part of this commit.
Render ==
    LET stale == effectPending /\ EffectCalls(latestData, rendered.selectedDevice)
        load == IF stale THEN TRUE ELSE loading
    IN /\ pendingData # None \/ rendered # Current
       /\ latestData' = IF pendingData # None THEN pendingData[1] ELSE latestData
       /\ pendingData' = None
       /\ effectPending' = (pendingData # None)
       /\ loading' = load
       /\ rendered' = Closure(devices, selectedDevice, metrics, load)
       /\ IF stale
            THEN /\ BagCardinality(inflight) < MaxInflight
                 /\ inflight' = LoadMetricsCall(inflight, rendered.selectedDevice[1], "push")
                 /\ last' = Calling(Step(FALSE, FALSE, <<>>, None),
                                    <<GetMetricsCalled(rendered.selectedDevice[1])>>)
            ELSE /\ inflight' = inflight
                 /\ last' = Step(FALSE, FALSE, <<>>, None)
       /\ UNCHANGED <<storeVars, predVars, appVars, chartVars, devices, selectedDevice, metrics,
                      predictions, isConnected, ws, metricsFrom>>

\* The effect on [latestData, selectedDevice] of a latestData commit, in
\* its own task: with latestData.length > 0 and a device selected it calls
\* loadMetrics(selectedDevice), which queues setLoading(true) and sends the
\* request.
LatestDataEffect ==
    /\ effectPending
    /\ effectPending' = FALSE
    /\ IF EffectCalls(latestData, rendered.selectedDevice)
         THEN /\ BagCardinality(inflight) < MaxInflight
              /\ loading' = TRUE
              /\ inflight' = LoadMetricsCall(inflight, rendered.selectedDevice[1], "push")
              /\ last' = Calling(Step(FALSE, FALSE, <<>>, None),
                                 <<GetMetricsCalled(rendered.selectedDevice[1])>>)
         ELSE /\ loading' = loading
              /\ inflight' = inflight
              /\ last' = Step(FALSE, FALSE, <<>>, None)
    /\ UNCHANGED <<storeVars, predVars, appVars, chartVars, devices, selectedDevice, metrics,
                   predictions, isConnected, latestData, pendingData, rendered, ws, metricsFrom>>

(***************************************************************************)
(* The App component: a rolling window of generated metrics and a mock     *)
(* forecast.                                                               *)
(***************************************************************************)
\* Interval callbacks explored.
MaxTicks == 23

\* useState initial values; the interval is running.
MountedApp ==
    /\ networkData = <<>>
    /\ forecastData = None
    /\ appLoading = FALSE
    /\ forecastTimers = 0
    /\ clock = 0

\* Array.prototype.slice(-n): the last n elements, all of them when there
\* are fewer.
SliceFromEnd(arr, n) ==
    IF Len(arr) <= n THEN arr ELSE SubSeq(arr, Len(arr) - n + 1, Len(arr))

\* Math.random() * 100 + 50 lies in [50, 150): its two ends, rounded.
BandwidthDraws == {50, 149}

\* newMetric: the draws of latency, packetLoss and throughput at their
\* lower ends.
NewMetric(t, bandwidth) ==
    [timestamp |-> t, bandwidth |-> bandwidth, latency |-> 10, packetLoss |-> 0,
     throughput |-> 20]

\* A window update that keeps 20 old samples.
NextNetworkDataKeep20(prev, newMetric) == SliceFromEnd(prev, 20) \o <<newMetric>>

\* prev => [...prev.slice(-19), newMetric]
NextNetworkData(prev, newMetric) == SliceFromEnd(prev, 19) \o <<newMetric>>

\* The windows explored hold at most one sample with the high draw.
HighDrawAllowed(prev) == \A i \in 1..Len(prev) : prev[i].bandwidth = 50

\* The setInterval callback, every 2000 ms.
MetricsInterval(bandwidth) ==
    /\ clock < MaxTicks
    /\ bandwidth = 149 => HighDrawAllowed(networkData)
    /\ networkData' = NextNetworkData(networkData, NewMetric(clock, bandwidth))
    /\ clock' = clock + 1
    /\ UNCHANGED <<storeVars, predVars, dashVars, chartVars, forecastData, appLoading, forecastTimers>>

\* The forecast generateForecast fabricates: 24 values each (the draws at
\* their lower ends), the i-th timestamp being Date.now() + i hours.
Forecast(t) ==
    [predictedBandwidth |-> [i \in 1..24 |-> 50],
     predictedLatency |-> [i \in 1..24 |-> 10],
     timestamps |-> [i \in 1..24 |-> [now |-> t, hours |-> i - 1]],
     accuracy |-> 85]

\* generateForecast: setLoading(true) and a setTimeout of 2000 ms.  The
\* button is disabled={loading}.
GenerateForecast ==
    /\ ~appLoading
    /\ appLoading' = TRUE
    /\ forecastTimers' = forecastTimers + 1
    /\ UNCHANGED <<storeVars, predVars, dashVars, chartVars, networkData, forecastData, clock>>

\* A callback that stores the forecast and leaves loading set.
ForecastTimeoutKeepsLoading ==
    /\ forecastTimers > 0
    /\ forecastTimers' = forecastTimers - 1
    /\ forecastData' = Some(Forecast(clock))
    /\ UNCHANGED <<storeVars, predVars, dashVars, chartVars, networkData, appLoading, clock>>

\* The setTimeout callback: setForecastData(forecast), setLoading(false).
ForecastTimeout ==
    /\ forecastTimers > 0
    /\ forecastTimers' = forecastTimers - 1
    /\ forecastData' = Some(Forecast(clock))
    /\ appLoading' = FALSE
    /\ UNCHANGED <<storeVars, predVars, dashVars, chartVars, networkData, clock>>

(***************************************************************************)
(* The MetricChart component: from props to chartData.                     *)
(***************************************************************************)
\* Lengths of the metrics and predictions props explored.
MaxChartMetrics == 2
MaxChartPredictions == 2

\* No MetricChart is rendered.
NoChart == chartProps = None /\ chart = None

\* Array.prototype.sort with (a, b) => key(a) - key(b): ascending and
\* stable.  keys[i] is the key of arr[i]; an element goes behind those with
\* a smaller key and those with the same key that precede it.
Rank(keys, i) ==
    Cardinality({j \in 1..Len(keys) :
                    keys[j] < keys[i] \/ (keys[j] = keys[i] /\ j < i)}) + 1
SortByKeys(arr, keys) ==
    [p \in 1..Len(arr) |-> arr[CHOOSE i \in 1..Len(arr) : Rank(keys, i) = p]]

\* An array that is left in the order given.
SortedMetricsAsGiven(metricsProp) == metricsProp

\* [...metrics].sort by new Date(timestamp).getTime()
SortedMetrics(metricsProp) ==
    SortByKeys(metricsProp, [i \in 1..Len(metricsProp) |-> metricsProp[i].timestamp])

\* [...predictions].sort by new Date(prediction_timestamp).getTime()
SortedPredictions(predictionsProp) ==
    SortByKeys(predictionsProp,
               [i \in 1..Len(predictionsProp) |-> predictionsProp[i].prediction_timestamp])

\* toLocaleTimeString([], {hour: '2-digit', minute: '2-digit'}) of an
\* instant given in minutes.
TimeLabel(t) == [hour |-> (t \div 60) % 24, minute |-> t % 60]

\* Array(n).fill(null)
Nulls(n) == [i \in 1..n |-> None]

\* p.confidence || 0 (the field may be undefined in the data received).
ConfidenceOrZero(p) == IF "confidence" \in DOMAIN p THEN p.confidence ELSE 0

\* p.predicted_value + (p.confidence || 0) * 0.1 and
\* p.predicted_value - (p.confidence || 0) * 0.1, both in tenths.
ConfidenceUpper(p) == 10 * p.predicted_value + ConfidenceOrZero(p)
ConfidenceLower(p) == 10 * p.predicted_value - ConfidenceOrZero(p)

Dataset(label, data) == [label |-> label, data |-> data]

\* chartData of a MetricChart with metrics.length > 0: labels and datasets.
ChartData(metricsProp, predictionsProp) ==
    LET sortedMetrics == SortedMetrics(metricsProp)
        sortedPredictions == SortedPredictions(predictionsProp)
        n == Len(sortedMetrics)
        k == Len(sortedPredictions)
        actualLabels == [i \in 1..n |-> TimeLabel(sortedMetrics[i].timestamp)]
        predictionLabels ==
            [i \in 1..k |-> TimeLabel(sortedPredictions[i].prediction_timestamp)]
        hasConfidence ==
            \E i \in 1..k : "confidence" \in DOMAIN sortedPredictions[i]
        actual ==
            Dataset("Actual Values",
                    [i \in 1..n |-> Some(sortedMetrics[i].value)] \o Nulls(k))
        predicted ==
            Dataset("Predictions",
                    Nulls(n) \o [i \in 1..k |-> Some(sortedPredictions[i].predicted_value)])
        upper ==
            Dataset("Confidence Upper",
                    Nulls(n) \o [i \in 1..k |-> Some(ConfidenceUpper(sortedPredictions[i]))])
        lower ==
            Dataset("Confidence Lower",
                    Nulls(n) \o [i \in 1..k |-> Some(ConfidenceLower(sortedPredictions[i]))])
    IN [labels |-> actualLabels \o predictionLabels,
        datasets |-> <<actual>>
                     \o (IF k > 0 THEN <<predicted>> ELSE <<>>)
                     \o (IF k > 0 /\ hasConfidence THEN <<upper, lower>> ELSE <<>>)]

\* The samples and predictions handed to the chart.
ChartMetrics ==
    { [NetworkMetricOf(1, "router-001", "bandwidth", t) EXCEPT !.value = v] :
        t \in {0, 61}, v \in {80, 85} }
ChartPredictions ==
    { [id |-> 1, device_id |-> "router-001", metric_name |-> "bandwidth",
       predicted_value |-> 90 + t, prediction_timestamp |-> 120 + t, confidence |-> 5] :
        t \in {0, 1} }
    \cup
    { [id |-> 1, device_id |-> "router-001", metric_name |-> "bandwidth",
       predicted_value |-> 90 + t, prediction_timestamp |-> 120 + t] : t \in {0, 1} }

SeqsUpTo(S, lo, hi) == UNION {[1..len -> S] : len \in lo..hi}

\* The props of a chart about to render: a non-empty metrics list (an empty
\* one renders the placeholder) and any predictions list.
ChartMounted ==
    /\ chartProps \in { Some([metrics |-> m, predictions |-> p]) :
                           m \in SeqsUpTo(ChartMetrics, 1, MaxChartMetrics),
                           p \in SeqsUpTo(ChartPredictions, 0, MaxChartPredictions) }
    /\ chart = None

\* The render of MetricChart.
RenderChart ==
    /\ chartProps # None
    /\ chart = None
    /\ chart' = Some(ChartData(chartProps[1].metrics, chartProps[1].predictions))
    /\ UNCHANGED <<storeVars, predVars, dashVars, appVars, chartProps>>

(***************************************************************************)
(* Specifications.                                                         *)
(***************************************************************************)
EmptyTables ==
    /\ network_metrics = {}
    /\ network_metrics_id_seq = 0
    /\ insert_result = None
    /\ attempted = {}
    /\ accepted = {}
    /\ predictions_table = {}
    /\ predictions_id_seq = 0
    /\ now = 0
    /\ inserted_predictions = {}

InitMetrics == EmptyTables /\ MountedDashboard /\ MountedApp /\ NoChart

NextMetrics == \E s \in SampleInputs : InsertSample(s)

SpecMetrics == InitMetrics /\ [][NextMetrics]_vars

InitPredictions == EmptyTables /\ MountedDashboard /\ MountedApp /\ NoChart

NextPredictions ==
    \/ \E p \in PredictionInputs : InsertPrediction(p)
    \/ Tick

SpecPredictions == InitPredictions /\ [][NextPredictions]_vars

InitDash == EmptyTables /\ MountedDashboard /\ MountedApp /\ NoChart

NextDash ==
    \/ \E net \in {NetOk(b) : b \in DevicesBodies} \cup {NetFail} : LoadDevicesResume(net)
    \/ \E d \in Devices : HandleDeviceSelect(d)  \* the cards the user clicks
    \/ \E req \in BagToSet(inflight) :
          \E net \in {NetOk(b) : b \in MetricsBodies(req.deviceId)} \cup {NetFail} :
              LoadMetricsResume(req, net)
    \/ \E req \in BagToSet(inflight) :
          \E net \in {NetOk(b) : b \in PredictionsBodies(req.deviceId, req.metricName)}
                         \cup {NetFail} :
              LoadPredictionsResume(req, net)
    \/ ActionButtonsEnabled /\ HandleGeneratePredictions
    \/ \E req \in BagToSet(inflight) : \E net \in {NetOk(<<>>), NetFail} :
          GeneratePredictionsResume(req, net)
    \/ ActionButtonsEnabled /\ HandleTrainModels
    \/ \E req \in BagToSet(inflight) : \E net \in {NetOk(<<>>), NetFail} :
          TrainModelsResume(req, net)
    \/ WsOpen
    \/ \E payload \in Payloads : WsMessage(payload)
    \/ Render
    \/ LatestDataEffect
    \/ WsError
    \/ \E errored \in BOOLEAN : WsClose(errored)

SpecDash == InitDash /\ [][NextDash]_vars

InitApp == EmptyTables /\ MountedDashboard /\ MountedApp /\ NoChart

NextApp ==
    \/ \E bandwidth \in BandwidthDraws : MetricsInterval(bandwidth)
    \/ GenerateForecast
    \/ ForecastTimeout

SpecApp == InitApp /\ [][NextApp]_vars

InitChart == EmptyTables /\ MountedDashboard /\ MountedApp /\ ChartMounted

NextChart == RenderChart

SpecChart == InitChart /\ [][NextChart]_vars

\* A timer that was set fires: the event loop runs the setTimeout callback
\* (generateForecast never clears it).
SpecAppLive == SpecApp /\ WF_vars(ForecastTimeout)

(***************************************************************************)
(* Properties of the samples table (checked under SpecMetrics).            *)
(***************************************************************************)
\* C1: after any sequence of insert_sample operations, successful or
\* rejected, no two stored samples share (timestamp, device_id, metric_name).
C1_UniqueTriple ==
    \A r1 \in network_metrics : \A r2 \in network_metrics :
        Triple(r1) = Triple(r2) => r1 = r2

\* A colliding insert has been rejected while the table holds several rows.
C1_Witness ==
    /\ insert_result # None
    /\ insert_result[1].status = "ConflictError"
    /\ Cardinality(network_metrics) >= 2

\* C2: an insert_sample whose triple is already stored fails with
\* ConflictError and leaves the table as it was: the stored value for the
\* triple is kept and no row is added.
C2_ConflictLeavesStore ==
    [][\A s \in SampleInputs :
          ( /\ network_metrics_id_seq' # network_metrics_id_seq
            /\ insert_result' = Some([sample |-> s, status |-> insert_result'[1].status])
            /\ \E r \in network_metrics : Triple(r) = Triple(s) )
          => /\ insert_result'[1].status = "ConflictError"
             /\ network_metrics' = network_metrics
             /\ \A r \in network_metrics :
                    Triple(r) = Triple(s) => \E r2 \in network_metrics' : r2 = r
             /\ Cardinality(network_metrics') = Cardinality(network_metrics)]_vars

\* A write of another value for a stored triple was rejected; the old value stands.
C2_Witness ==
    /\ insert_result # None
    /\ insert_result[1].status = "ConflictError"
    /\ \E r \in network_metrics :
          /\ Triple(r) = Triple(insert_result[1].sample)
          /\ r.value # insert_result[1].sample.value

IsSortedDesc(seq) ==
    \A i \in 1..Len(seq) : \A j \in 1..Len(seq) :
        i < j => seq[i].timestamp >= seq[j].timestamp

Sample0000 ==
    [timestamp |-> 0, device_id |-> "router-001", metric_name |-> "bandwidth",
     value |-> 80, unit |-> UnitOf("bandwidth")]
Sample0001 ==
    [timestamp |-> 1, device_id |-> "router-001", metric_name |-> "bandwidth",
     value |-> 85, unit |-> UnitOf("bandwidth")]
RouterBandwidth ==
    [device_id |-> Some("router-001"), metric_name |-> Some("bandwidth"),
     start_time |-> None, end_time |-> None, limit |-> None]

\* C4: every query_samples result is ordered by timestamp descending and has
\* at most `limit` rows when a limit is given; with (router-001, bandwidth)
\* samples 80 at 00:00 and 85 at 00:01 stored, the 00:01 sample comes first.
C4_OrderedDescWithinLimit ==
    /\ \A q \in Queries : \A res \in QuerySamples(q) :
          /\ IsSortedDesc(res)
          /\ (q.limit # None => Len(res) <= q.limit[1])
    /\ ({Sample0000, Sample0001} \subseteq accepted =>
          \A res \in QuerySamples(RouterBandwidth) :
              \E i \in 1..Len(res) : \E j \in 1..Len(res) :
                  /\ i < j
                  /\ RowSample(res[i]) = Sample0001
                  /\ RowSample(res[j]) = Sample0000)

\* The scenario's two samples are stored; the query returns 85 then 80, and
\* limit 1 cuts the result down to the 00:01 sample.
C4_Witness ==
    /\ accepted = {Sample0000, Sample0001}
    /\ \E res \in QuerySamples(RouterBandwidth) :
          Len(res) = 2 /\ res[1].value = 85 /\ res[2].value = 80
    /\ \A res \in QuerySamples([RouterBandwidth EXCEPT !.limit = Some(1)]) :
          Len(res) = 1 /\ res[1].value = 85

PairwiseDistinctTriples(samples) ==
    \A s1 \in samples : \A s2 \in samples : Triple(s1) = Triple(s2) => s1 = s2

\* Does a sample satisfy every filter the query supplies?
Satisfies(s, q) ==
    /\ \A d \in Devices : q.device_id = Some(d) => s.device_id = d
    /\ \A m \in MetricNames : q.metric_name = Some(m) => s.metric_name = m
    /\ \A t \in Timestamps : q.start_time = Some(t) => ~(s.timestamp < t)
    /\ \A t \in Timestamps : q.end_time = Some(t) => ~(s.timestamp > t)

Smaller(a, b) == IF a <= b THEN a ELSE b

\* C5: when the samples inserted have pairwise distinct triples, query_samples
\* returns exactly the inserted samples that satisfy all supplied filters,
\* truncated to the limit: none invented, none duplicated, none missing other
\* than the oldest ones the limit cuts off.
C5_ExactlyInsertedFiltered ==
    PairwiseDistinctTriples(attempted) =>
        \A q \in Queries : \A res \in QuerySamples(q) :
            LET want == {s \in attempted : Satisfies(s, q)}
                got == {RowSample(res[i]) : i \in 1..Len(res)}
            IN /\ got \subseteq want
               /\ \A i \in 1..Len(res) : \A j \in 1..Len(res) :
                      i # j => RowSample(res[i]) # RowSample(res[j])
               /\ Len(res) = IF q.limit = None THEN Cardinality(want)
                             ELSE Smaller(q.limit[1], Cardinality(want))
               /\ \A s \in want \ got : \A g \in got : s.timestamp <= g.timestamp

\* Three samples with distinct triples are inserted and a filtered, limited
\* query returns fewer rows than match.
C5_Witness ==
    /\ Cardinality(attempted) = 3
    /\ PairwiseDistinctTriples(attempted)
    /\ \E q \in Queries :
          /\ q.device_id # None
          /\ q.end_time # None
          /\ q.limit = Some(1)
          /\ Cardinality({s \in attempted : Satisfies(s, q)}) = 2
          /\ Cardinality({s \in attempted : ~Satisfies(s, q)}) = 1
          /\ \E res \in QuerySamples(q) : Len(res) = 1

\* C6: list_devices has exactly one entry per distinct device_id of the stored
\* samples, metrics_count is the number of stored samples of the device and
\* last_seen the maximum of their timestamps.
C6_ListDevicesExact ==
    /\ {e.device_id : e \in ListDevices} = {s.device_id : s \in accepted}
    /\ \A e1 \in ListDevices : \A e2 \in ListDevices :
          e1.device_id = e2.device_id => e1 = e2
    /\ \A e \in ListDevices :
          LET mine == {s \in accepted : s.device_id = e.device_id}
          IN /\ e.metrics_count = Cardinality(mine)
             /\ \E s \in mine : s.timestamp = e.last_seen
             /\ \A s \in mine : s.timestamp <= e.last_seen

\* Two devices are listed, one of them with two samples of different instants.
C6_Witness ==
    /\ Cardinality(ListDevices) = 2
    /\ \E e \in ListDevices : e.metrics_count = 2 /\ e.last_seen = 1
    /\ \E s \in accepted : s.device_id = "router-001" /\ s.timestamp = 0
    /\ \E s \in accepted : s.device_id = "router-001" /\ s.timestamp = 1

(***************************************************************************)
(* Properties of the predictions table (checked under SpecPredictions).    *)
(***************************************************************************)
Rows(seq) == {seq[i] : i \in 1..Len(seq)}

\* Does a horizon of h hours, taken now, bracket the instant t?
Brackets(h, t) == ~(t < now) /\ ~(t > now + h)

\* C7: an inserted Prediction is returned by query_predictions for its
\* (device_id, metric_name) under every horizon that brackets its
\* predicted_timestamp, and by none under a horizon that excludes it.
C7_RoundTripByHorizon ==
    \A r \in inserted_predictions : \A h \in {1, 2, 4} :
        \A res \in QueryPredictions(r.device_id, r.metric_name, Some(h)) :
            IF Brackets(h, r.predicted_timestamp)
              THEN r \in Rows(res)
              ELSE r \notin Rows(res)

\* Two predictions of one series and instant were inserted; one horizon
\* returns both of them, a shorter one neither.
C7_Witness ==
    \E r1 \in inserted_predictions : \E r2 \in inserted_predictions :
        /\ r1.id # r2.id
        /\ r1.device_id = r2.device_id
        /\ r1.metric_name = r2.metric_name
        /\ r1.predicted_timestamp = r2.predicted_timestamp
        /\ Brackets(2, r1.predicted_timestamp)
        /\ ~Brackets(1, r1.predicted_timestamp)
        /\ \E res \in QueryPredictions(r1.device_id, r1.metric_name, Some(2)) :
              {r1, r2} \subseteq Rows(res)
        /\ \A res \in QueryPredictions(r1.device_id, r1.metric_name, Some(1)) :
              r1 \notin Rows(res) /\ r2 \notin Rows(res)

\* C8: query_predictions returns only predictions of the device_id and
\* metric_name asked for, ordered by predicted_timestamp ascending.
C8_SeriesOnlyAscending ==
    \A d \in Devices : \A m \in MetricNames : \A h \in Horizons :
        \A res \in QueryPredictions(d, m, h) :
            /\ \A i \in 1..Len(res) : res[i].device_id = d /\ res[i].metric_name = m
            /\ \A i \in 1..Len(res) : \A j \in 1..Len(res) :
                  i < j => res[i].predicted_timestamp <= res[j].predicted_timestamp

\* A series holds two predictions, the later forecast instant produced
\* first, and the query returns them by forecast instant.
C8_Witness ==
    \E res \in QueryPredictions("router-001", "bandwidth", None) :
        /\ Len(res) = 2
        /\ res[1].predicted_timestamp < res[2].predicted_timestamp
        /\ res[1].created_at > res[2].created_at

(***************************************************************************)
(* Properties of the Dashboard (checked under SpecDash).                   *)
(***************************************************************************)
MetricsFetchPending == \E req \in BagToSet(inflight) : req.kind = "getMetrics"

\* C3: when device X and then device Y are selected before X's metrics fetch
\* resolves, the metrics displayed once both fetches have resolved, in
\* whichever order, are those fetched for Y: with no metrics fetch
\* outstanding, `metrics` holds the result fetched for the selected device.
C3_DisplayedMetricsOfSelected ==
    (selectedDevice # None /\ ~MetricsFetchPending) => metricsFrom = selectedDevice

\* C9: no fetch failure escapes the Dashboard operation that issued the
\* request: every failed request is caught and logged, and the operation
\* completes (loadMetrics still clears the loading flag).
C9_FailuresCaughtAndLogged ==
    /\ ~last.uncaught
    /\ (last.failed => Len(last.logs) > 0)
    /\ (last.failed /\ last.logs = <<"Error fetching metrics:">> => ~loading)

\* The generate request failed; handleGeneratePredictions caught and logged it.
C9_Witness ==
    /\ last.failed
    /\ last.logs = <<"Error generating predictions:">>
    /\ ~last.uncaught

\* The step settles a failed request of the given kind.
FailedFetch(kind) ==
    /\ last'.failed
    /\ \E req \in BagToSet(inflight) :
          req.kind = kind /\ CopiesIn(req, inflight') < CopiesIn(req, inflight)

\* C10: when a devices, metrics or predictions fetch fails, the state for
\* that data becomes empty or keeps its previous value; it never comes to
\* hold fabricated devices or metrics.
C10_FailureGivesEmptyOrPrevious ==
    [][ /\ (FailedFetch("getDevices") => devices' = devices \/ devices' = <<>>)
        /\ (FailedFetch("getMetrics") => metrics' = metrics \/ metrics' = <<>>)
        /\ (FailedFetch("getPredictions") =>
                predictions' = predictions \/ predictions' = <<>>) ]_vars

FetchesInFlight(kind, deviceId, origin, bag) == CopiesIn(Req(kind, deviceId, "", origin), bag)

\* A step in which the effect, run for a rendered message, called
\* loadMetrics(d).
PushRefetch(d) ==
    FetchesInFlight("getMetrics", d, "push", inflight')
        > FetchesInFlight("getMetrics", d, "push", inflight)

\* The device ids the updates of a parsed message carry.
UpdateDevices(data) == {data.items[i].device_id : i \in 1..Len(data.items)}

\* C11: a received live-update message makes the Dashboard re-fetch the
\* metrics of the selected device only if the update's device_id is the
\* selected device; an update for another device triggers no re-fetch.
C11_RefetchOnlyForSelectedDevice ==
    [][\A d \in Devices :
          PushRefetch(d) =>
              /\ selectedDevice = Some(d)
              /\ d \in UpdateDevices(latestData')]_vars

Origins == {"select", "push"}

Issued(req) == CopiesIn(req, inflight') > CopiesIn(req, inflight)
Settled(req) == CopiesIn(req, inflight') < CopiesIn(req, inflight)

\* C12: every click on a device card, of the selected device or another,
\* makes that device the selected one and first calls
\* getMetrics({device_id, limit: 100}), without metric_name, whose request is
\* then in flight; the selection changes in no other step.  loadMetrics
\* calls getPredictions(device, metric_name, 4) only in the step in which a
\* metrics fetch of that device resolved non-empty, with the metric_name of
\* the first sample; the step of an empty metrics result issues no
\* predictions fetch.
C12_SelectFetchesThenPredicts ==
    [][ /\ \A d \in Devices :
              last'.selected = Some(d) =>
                  /\ selectedDevice' = Some(d)
                  /\ rendered'.selectedDevice = Some(d)
                  /\ Len(last'.calls) >= 1
                  /\ last'.calls[1] =
                        [fn |-> "getMetrics", args |-> <<[device_id |-> d, limit |-> 100]>>]
                  /\ Issued(Req("getMetrics", d, "", "select"))
        /\ (selectedDevice' # selectedDevice => last'.selected = selectedDevice')
        /\ \A d \in Devices :
              Issued(Req("getMetrics", d, "", "select")) => last'.selected = Some(d)
        /\ \A d \in Devices : \A m \in MetricNames :
              Issued(Req("getPredictions", d, m, "")) =>
                  /\ last'.calls = <<[fn |-> "getPredictions", args |-> <<d, m, 4>>]>>
                  /\ \E o \in Origins : Settled(Req("getMetrics", d, "", o))
                  /\ Len(metrics') > 0
                  /\ metrics'[1].metric_name = m
                  /\ metricsFrom' = Some(d)
        /\ \A d \in Devices : \A o \in Origins :
              (Settled(Req("getMetrics", d, "", o)) /\ Len(metrics') = 0) =>
                  /\ last'.calls = <<>>
                  /\ \A req \in BagToSet(inflight') :
                        req.kind = "getPredictions" => ~Issued(req) ]_vars

\* The metrics fetch of a selection has resolved non-empty, the predictions
\* fetch for its device and first metric_name is in flight, and the card of
\* the same device has been clicked again, which fetches its metrics anew.
C12_Witness ==
    /\ selectedDevice # None
    /\ last.selected = selectedDevice
    /\ metricsFrom = selectedDevice
    /\ Len(metrics) > 0
    /\ BagIn(Req("getPredictions", selectedDevice[1], metrics[1].metric_name, ""), inflight)
    /\ BagIn(Req("getMetrics", selectedDevice[1], "", "select"), inflight)

(***************************************************************************)
(* Confidence bounds: the predictions table and the MetricChart series.    *)
(***************************************************************************)

\* C13: every stored prediction with both confidence bounds present has
\* confidence_interval_lower <= predicted_value <= confidence_interval_upper,
\* and the confidence series computed for display satisfy
\* lower <= predicted_value <= upper for every prediction shown.
C13_ConfidenceBoundsBracketValue ==
    /\ \A r \in predictions_table :
          (r.confidence_interval_lower # None /\ r.confidence_interval_upper # None) =>
              /\ r.confidence_interval_lower[1] <= r.predicted_value
              /\ r.predicted_value <= r.confidence_interval_upper[1]
    /\ \A i \in 1..Len(predictions) :
          /\ ConfidenceLower(predictions[i]) <= 10 * predictions[i].predicted_value
          /\ 10 * predictions[i].predicted_value <= ConfidenceUpper(predictions[i])

(***************************************************************************)
(* The connection state of useWebSocket.                                   *)
(***************************************************************************)
\* C14: isConnected starts false on mount, becomes true only at the
\* channel's open event, becomes false when the channel closes, and, the hook
\* never reconnecting, is never true again once the channel has closed.
C14_ConnectedOnlyWhileOpen ==
    /\ ~isConnected
    /\ [][ /\ (~isConnected /\ isConnected' => ws = "connecting" /\ ws' = "open")
            /\ (ws # "closed" /\ ws' = "closed" => ~isConnected')
            /\ (ws = "closed" => ws' = "closed" /\ ~isConnected') ]_vars

\* The channel was open long enough to deliver updates and has closed.
C14_Witness ==
    /\ ws = "closed"
    /\ ~isConnected
    /\ HasLength(latestData)

\* C15: whatever the selections, push-triggered refreshes and fetch outcomes
\* were, the metrics the Dashboard holds for display are at most the 100
\* samples of the requested window.
C15_MetricsWithinWindow == Len(metrics) <= GetMetricsQuery(Req("getMetrics", "", "", "")).limit

(***************************************************************************)
(* The action buttons.                                                     *)
(***************************************************************************)
\* What neither handler touches.
FrameKept ==
    /\ loading' = loading
    /\ metrics' = metrics
    /\ devices' = devices
    /\ selectedDevice' = selectedDevice

PredictionsFetchIssued ==
    \E req \in BagToSet(inflight') : req.kind = "getPredictions" /\ Issued(req)

\* The buttons' handlers closed over no device or over an empty metrics list.
NothingToActOn == rendered.selectedDevice = None \/ Len(rendered.metrics) = 0

\* C16: for a render without a selected device or with an empty metrics
\* list handleGeneratePredictions sends nothing, and no step issues a
\* generate request then; otherwise a click calls
\* generatePredictions(selected device, metric_name of metrics[0], 4), the
\* values of the render the button belongs to, and nothing else; the
\* predictions of that pair are re-fetched, with horizon 4, only in the step
\* in which the request completed successfully; on failure there is no
\* re-fetch and predictions stay as they are; loading, metrics, devices and
\* the selected device are never changed.
C16_GenerateThenRefetch ==
    /\ [](NothingToActOn => GeneratePredictionsRequest(rendered) = None)
    /\ [][\A d \in Devices : \A m \in MetricNames :
          LET gen == Req("generatePredictions", d, m, "")
              refetch == Req("getPredictions", d, m, "generate")
          IN /\ Issued(gen) =>
                  /\ ~NothingToActOn
                  /\ rendered.selectedDevice = Some(d)
                  /\ rendered.metrics[1].metric_name = m
                  /\ last'.calls = <<[fn |-> "generatePredictions", args |-> <<d, m, 4>>]>>
                  /\ BagCardinality(inflight') = BagCardinality(inflight) + 1
                  /\ ~PredictionsFetchIssued
                  /\ predictions' = predictions
                  /\ FrameKept
             /\ (Settled(gen) /\ ~last'.failed) =>
                  /\ CopiesIn(refetch, inflight') = CopiesIn(refetch, inflight) + 1
                  /\ last'.calls = <<[fn |-> "getPredictions", args |-> <<d, m, 4>>]>>
                  /\ BagCardinality(inflight') = BagCardinality(inflight)
                  /\ FrameKept
             /\ (Settled(gen) /\ last'.failed) =>
                  /\ ~PredictionsFetchIssued
                  /\ last'.calls = <<>>
                  /\ predictions' = predictions
                  /\ FrameKept
             /\ Issued(refetch) => Settled(gen) /\ ~last'.failed
             /\ Settled(refetch) => FrameKept]_vars

\* A generate request has succeeded and its re-fetch is in flight while
\* earlier predictions are shown.
C16_Witness ==
    /\ selectedDevice # None
    /\ Len(metrics) > 0
    /\ Len(predictions) > 0
    /\ BagIn(Req("getPredictions", selectedDevice[1], metrics[1].metric_name, "generate"),
             inflight)

\* C17: handleTrainModels leaves devices, the selected device, metrics,
\* predictions and loading as they are whether the training request succeeds
\* or fails; each issued request raises exactly one notification, of success
\* or of error, when it settles, and no other step raises one; for a render
\* without a selected device or with an empty metrics list the handler sends
\* nothing, and no step issues a training request then; a click calls
\* trainModels(selected device, metric_name of metrics[0]) with the values
\* of the render the button belongs to.
C17_TrainModelsOnlyNotifies ==
    /\ [](NothingToActOn => TrainModelsRequest(rendered) = None)
    /\ [][ /\ \A d \in Devices : \A m \in MetricNames :
              LET train == Req("trainModels", d, m, "")
              IN /\ Issued(train) =>
                      /\ ~NothingToActOn
                      /\ rendered.selectedDevice = Some(d)
                      /\ rendered.metrics[1].metric_name = m
                      /\ last'.calls = <<[fn |-> "trainModels", args |-> <<d, m>>]>>
                      /\ inflight' = Issue(inflight, train)
                      /\ last'.alert = None
                      /\ predictions' = predictions
                      /\ FrameKept
                 /\ Settled(train) =>
                      /\ inflight' = Settle(inflight, train)
                      /\ last'.calls = <<>>
                      /\ last'.alert =
                            IF last'.failed THEN Some("Error starting model training")
                            ELSE Some("Model training started successfully!")
                      /\ predictions' = predictions
                      /\ FrameKept
        /\ (last'.alert # None =>
              \E d \in Devices : \E m \in MetricNames :
                  Settled(Req("trainModels", d, m, ""))) ]_vars

\* A training request has failed and the error notification was raised.
C17_Witness ==
    /\ last.failed
    /\ last.alert = Some("Error starting model training")
    /\ selectedDevice # None
    /\ Len(metrics) > 0

(***************************************************************************)
(* Push-triggered re-fetches.                                              *)
(***************************************************************************)
\* The push-triggered metrics fetches awaiting their response.
PushRefetchesInFlight ==
    BagCardinality([req \in {r \in BagToSet(inflight) : r.origin = "push"} |->
                        CopiesIn(req, inflight)])

\* C18: at most one push-triggered metrics re-fetch is in flight at any
\* time: a live-update event starts no re-fetch while an earlier
\* push-triggered re-fetch is unresolved.
C18_OnePushRefetchInFlight == PushRefetchesInFlight <= 1

\* A step in which the channel delivered a message: a parsed one queues an
\* update of latestData, an unparsable one is logged.
MessageReceived ==
    \/ pendingData' # pendingData /\ pendingData' # None
    \/ last'.logs = <<"Error parsing WebSocket message:">>

\* A step in which the effect left by a rendered update ran.
EffectRan == effectPending /\ ~effectPending'

\* C19: while a device is selected, every push event received on the channel
\* triggers one full metrics re-fetch for the selected device, so that k
\* events cause k requests: each event queues an update of its own, none
\* taking the place of one not yet rendered, and the effect of each rendered
\* update issues one re-fetch.
C19_EveryPushRefetches ==
    [][ /\ (MessageReceived /\ selectedDevice # None) =>
              pendingData = None /\ pendingData' # pendingData
        /\ (EffectRan /\ selectedDevice # None) =>
              LET req == Req("getMetrics", selectedDevice[1], "", "push")
              IN CopiesIn(req, inflight') = CopiesIn(req, inflight) + 1 ]_vars

(***************************************************************************)
(* The rolling window of App (checked under SpecApp).                      *)
(***************************************************************************)
\* C20: after any number of periodic ticks networkData holds at most 20
\* samples: a tick appends the new sample at the end and, when the window
\* already holds 20, drops exactly the oldest one, the others keeping their
\* order of arrival.
C20_RollingWindowOfTwenty ==
    /\ Len(networkData) <= 20
    /\ [][ /\ Len(networkData') <= 20
            /\ (networkData' # networkData =>
                  LET kept == IF Len(networkData) = 20 THEN Tail(networkData)
                              ELSE networkData
                  IN /\ Len(networkData') = Len(kept) + 1
                     /\ SubSeq(networkData', 1, Len(kept)) = kept
                     /\ networkData'[Len(networkData')].timestamp = clock) ]_vars

\* The window is full, its oldest samples have been dropped, and a sample
\* with the high draw sits inside it at the place its arrival gave it.
C20_Witness ==
    /\ Len(networkData) = 20
    /\ networkData[1].timestamp = 3
    /\ networkData[20].timestamp = 22
    /\ networkData[8].bandwidth = 149
    /\ networkData[8].timestamp = 10

(***************************************************************************)
(* The loading flag and overlapping fetches.                               *)
(***************************************************************************)
\* C21: loading is true whenever at least one metrics fetch of loadMetrics
\* is in flight, overlapping fetches included; it is false only when no
\* metrics fetch is pending.
C21_LoadingWhileFetching == MetricsFetchPending => loading

\* No request awaits its response.
Quiescent == BagToSet(inflight) = {}

\* C22: once every outstanding request has resolved, the predictions the
\* Dashboard holds come from a predictions fetch for the selected device;
\* those of a previously selected device do not stay in state, also when the
\* metrics fetch of the new selection returns an empty list.
C22_PredictionsOfSelected ==
    (Quiescent /\ selectedDevice # None) =>
        \A i \in 1..Len(predictions) : predictions[i].device_id = selectedDevice[1]

(***************************************************************************)
(* Messages that are not JSON.                                             *)
(***************************************************************************)
\* C23: a live-update message whose payload fails to parse is caught inside
\* the hook: latestData and isConnected keep their values and the message
\* triggers no metrics re-fetch (it issues none, queues no update whose
\* render would, and leaves no effect to run).
C23_ParseErrorChangesNothing ==
    [][last'.logs = <<"Error parsing WebSocket message:">> =>
          /\ ~last'.uncaught
          /\ latestData' = latestData
          /\ pendingData' = pendingData
          /\ effectPending' = effectPending
          /\ isConnected' = isConnected
          /\ inflight' = inflight
          /\ loading' = loading]_vars

\* An unparsable message has arrived on the open channel while a device is
\* selected and an earlier non-empty update is held.
C23_Witness ==
    /\ last.logs = <<"Error parsing WebSocket message:">>
    /\ selectedDevice # None
    /\ HasLength(latestData)
    /\ isConnected

(***************************************************************************)
(* The mock forecast of App (checked under SpecAppLive).                   *)
(***************************************************************************)
IsForecastOf24(f) ==
    /\ Len(f.predictedBandwidth) = 24
    /\ Len(f.predictedLatency) = 24
    /\ Len(f.timestamps) = 24

\* C24: the forecast loading flag is true exactly while a generation started
\* by generateForecast is pending; at most one is pending at any time; every
\* generation started completes, with forecastData set to a forecast of 24
\* bandwidth values, 24 latency values and 24 timestamps and loading false.
C24_ForecastLoadingAndCompletion ==
    /\ [](appLoading <=> forecastTimers > 0)
    /\ [](forecastTimers <= 1)
    /\ [](forecastData # None => IsForecastOf24(forecastData[1]))
    /\ [][forecastTimers' < forecastTimers =>
              ~appLoading' /\ forecastData' # None]_vars
    /\ (appLoading ~> (~appLoading /\ forecastData # None))

\* A forecast has been produced and a second generation is pending.
C24_Witness ==
    /\ forecastData # None
    /\ IsForecastOf24(forecastData[1])
    /\ appLoading
    /\ forecastTimers = 1

(***************************************************************************)
(* The datasets of MetricChart (checked under SpecChart).                  *)
(***************************************************************************)
Perms(n) == {f \in [1..n -> 1..n] : \A i \in 1..n : \A j \in 1..n : f[i] = f[j] => i = j}

\* data holds n nulls and then values[f[1]], values[f[2]], ... for an
\* arrangement f of the items that is ascending in their keys.
NullsThenAscending(data, n, keys, values) ==
    /\ \A i \in 1..n : data[i] = None
    /\ \E f \in Perms(Len(keys)) :
          /\ \A i \in 1..Len(keys) : \A j \in 1..Len(keys) :
                i < j => keys[f[i]] <= keys[f[j]]
          /\ \A i \in 1..Len(keys) : data[n + i] = Some(values[f[i]])

\* The value a series shows for a prediction.
SeriesValue(label, p) ==
    IF label = "Predictions" THEN p.predicted_value
    ELSE IF label = "Confidence Upper" THEN ConfidenceUpper(p)
    ELSE ConfidenceLower(p)

\* C25: for a non-empty metrics list and any predictions list, every data
\* array MetricChart builds has length |metrics| + |predictions|, the number
\* of labels; the actual-values series holds the metric values in ascending
\* timestamp order in its first |metrics| positions and null afterwards; the
\* predictions and confidence series hold null in the first |metrics|
\* positions and then one value per prediction in ascending
\* prediction-timestamp order.
C25_ChartDatasetsAligned ==
    chart # None =>
        LET m == chartProps[1].metrics
            p == chartProps[1].predictions
            n == Len(m)
            k == Len(p)
            sets == chart[1].datasets
        IN /\ Len(chart[1].labels) = n + k
           /\ \A d \in 1..Len(sets) : Len(sets[d].data) = n + k
           /\ sets[1].label = "Actual Values"
           /\ NullsThenAscending(sets[1].data, 0,
                                 [i \in 1..n |-> m[i].timestamp],
                                 [i \in 1..n |-> m[i].value])
           /\ \A i \in 1..k : sets[1].data[n + i] = None
           /\ \A d \in 2..Len(sets) :
                 NullsThenAscending(sets[d].data, n,
                                    [i \in 1..k |-> p[i].prediction_timestamp],
                                    [i \in 1..k |-> SeriesValue(sets[d].label, p[i])])

\* A chart has been built from metrics and predictions that both arrived
\* newest first, with confidence: four series.
C25_Witness ==
    /\ chart # None
    /\ Len(chartProps[1].metrics) = 2
    /\ chartProps[1].metrics[1].timestamp > chartProps[1].metrics[2].timestamp
    /\ chartProps[1].metrics[1].value # chartProps[1].metrics[2].value
    /\ Len(chartProps[1].predictions) = 2
    /\ chartProps[1].predictions[1].prediction_timestamp
          > chartProps[1].predictions[2].prediction_timestamp
    /\ Len(chart[1].datasets) = 4
====
